---- MODULE Spec2Model ----
(***************************************************************************)
(* Data-access layer of the scheduling bot (app/db/crud/schedule.py):      *)
(* the ScheduleCache store (get_cached_schedule, save_schedule_to_cache),  *)
(* the user lookups and the daily lesson aggregator, run as concurrent     *)
(* coroutines against one database under READ COMMITTED isolation.         *)
(***************************************************************************)
EXTENDS Integers, Sequences, FiniteSets, TLC

VARIABLES
    rows,       \* ScheduleCache table: committed rows, in heap order
    users,      \* User table
    settings,   \* UserSettings table
    clock,      \* datetime.utcnow(), as a logical clock
    pc,         \* per coroutine: position in the accessor it runs
    call,       \* per coroutine: the accessor called and its arguments
    local,      \* per coroutine: local variables of the call
    result,     \* per coroutine: how the last call ended and what it returned
    sessions,   \* coroutines holding an open AsyncSession
    opened,     \* per coroutine: sessions opened by the current call
    puts,       \* number of save_schedule_to_cache calls started so far
    lastCommit  \* history: per cache key, payload of the put that committed last

vars == <<rows, users, settings, clock, pc, call, local, result, sessions,
          opened, puts, lastCommit>>

-----------------------------------------------------------------------------
(* Bounds *)

\* save_schedule_to_cache calls started in one behaviour
MaxPuts == 2
\* rows of a cache table the aggregator is applied to
MaxRows == 2

\* two coroutines of the bot
Procs == {1, 2}

-----------------------------------------------------------------------------
(* Python values *)

NoneValue == [type |-> "NoneType"]

\* a str holding JSON text: parses says whether json.loads accepts it,
\* lessons is the array it decodes to
JsonText(parses, lessons) == [type |-> "str", parses |-> parses, lessons |-> lessons]

Date(y, m, d) == [year |-> y, month |-> m, day |-> d]

-----------------------------------------------------------------------------
(* datetime: fromisoformat, date + timedelta(days=1), toordinal *)

Digits == <<"0", "1", "2", "3", "4", "5", "6", "7", "8", "9">>

IsDigit(c) == \E i \in 1..10 : Digits[i] = c

DigitVal(c) == (CHOOSE i \in 1..10 : Digits[i] = c) - 1

RECURSIVE Num(_)
Num(s) == IF s = <<>> THEN 0
          ELSE 10 * Num(SubSeq(s, 1, Len(s) - 1)) + DigitVal(s[Len(s)])

AllDigits(s) == \A i \in 1..Len(s) : IsDigit(s[i])

IsLeap(y) == y % 4 = 0 /\ (y % 100 # 0 \/ y % 400 = 0)

DaysInMonth(y, m) ==
    IF m = 2 THEN (IF IsLeap(y) THEN 29 ELSE 28)
    ELSE IF m \in {4, 6, 9, 11} THEN 30 ELSE 31

\* s[:10]
Slice10(s) == SubSeq(s, 1, IF Len(s) < 10 THEN Len(s) ELSE 10)

\* datetime.fromisoformat(raw_date).date() on a string of at most 10 characters:
\* YYYY-MM-DD with a real calendar date, else ValueError
fromisoformat(s) ==
    IF /\ Len(s) = 10
       /\ s[5] = "-" /\ s[8] = "-"
       /\ AllDigits(SubSeq(s, 1, 4)) /\ AllDigits(SubSeq(s, 6, 7))
       /\ AllDigits(SubSeq(s, 9, 10))
    THEN LET y == Num(SubSeq(s, 1, 4))
             m == Num(SubSeq(s, 6, 7))
             d == Num(SubSeq(s, 9, 10))
         IN  IF y >= 1 /\ m \in 1..12 /\ d >= 1 /\ d <= DaysInMonth(y, m)
             THEN [ok |-> TRUE, date |-> Date(y, m, d)]
             ELSE [ok |-> FALSE]
    ELSE [ok |-> FALSE]

AddOneDayNoRollover(dt) == [ok |-> TRUE, date |-> Date(dt.year, dt.month, dt.day + 1)]

\* date + timedelta(days=1); OverflowError past date.max
AddOneDay(dt) ==
    IF dt.day < DaysInMonth(dt.year, dt.month)
    THEN [ok |-> TRUE, date |-> Date(dt.year, dt.month, dt.day + 1)]
    ELSE IF dt.month < 12
    THEN [ok |-> TRUE, date |-> Date(dt.year, dt.month + 1, 1)]
    ELSE IF dt.year < 9999
    THEN [ok |-> TRUE, date |-> Date(dt.year + 1, 1, 1)]
    ELSE [ok |-> FALSE]

RECURSIVE DaysBeforeMonth(_, _)
DaysBeforeMonth(y, m) ==
    IF m = 1 THEN 0 ELSE DaysBeforeMonth(y, m - 1) + DaysInMonth(y, m - 1)

\* date.toordinal(): days since 0001-01-01, that day being 1
Ordinal(dt) ==
    LET y == dt.year - 1
    IN  y * 365 + (y \div 4) - (y \div 100) + (y \div 400)
        + DaysBeforeMonth(dt.year, dt.month) + dt.day

\* app.utils.schedule.get_week_start: the Monday of the week holding dt,
\* as the ordinal of that day (date.weekday() is (toordinal() + 6) % 7)
get_week_start(dt) == Ordinal(dt) - ((Ordinal(dt) + 6) % 7)

-----------------------------------------------------------------------------
(* Sample inputs: scheduleDate strings, lessons, cached payloads, dates *)

Chars(y, m, d, tail) == y \o <<"-">> \o m \o <<"-">> \o d \o tail

Evening == <<"T", "1", "9", ":", "0", "0", ":", "0", "0">>

SD_0313 == Chars(<<"2", "0", "2", "4">>, <<"0", "3">>, <<"1", "3">>, Evening)
SD_0314 == Chars(<<"2", "0", "2", "4">>, <<"0", "3">>, <<"1", "4">>, Evening)
SD_0228 == Chars(<<"2", "0", "2", "4">>, <<"0", "2">>, <<"2", "8">>, Evening)
SD_1231 == Chars(<<"2", "0", "2", "3">>, <<"1", "2">>, <<"3", "1">>, Evening)
SD_Dotted == <<"1", "4", ".", "0", "3", ".", "2", "0", "2", "4">>
SD_NoDay == <<"2", "0", "2", "4", "-", "0", "2", "-", "3", "0">>

\* a lesson dict with and without the scheduleDate key
Lesson(subject, sd) == [subject |-> subject, scheduleDate |-> sd]
LessonNoDate(subject) == [subject |-> subject]

P_Week == JsonText(TRUE, <<Lesson("math", SD_0314), Lesson("chem", SD_0313),
                           Lesson("phys", SD_0314)>>)
P_Edges == JsonText(TRUE, <<Lesson("bio", SD_0228), Lesson("art", SD_1231)>>)
P_Garbage == JsonText(FALSE, <<>>)
P_NoDate == JsonText(TRUE, <<Lesson("math", SD_0314), LessonNoDate("hist"),
                             Lesson("phys", SD_0314)>>)
P_BadDate == JsonText(TRUE, <<Lesson("geo", SD_Dotted), Lesson("math", SD_0314)>>)
P_BadDay == JsonText(TRUE, <<Lesson("bio", SD_0228), Lesson("law", SD_NoDay)>>)
P_Empty == JsonText(TRUE, <<>>)
P_Late == JsonText(TRUE, <<Lesson("lit", SD_0314)>>)

Payloads ==
    {P_Week, P_Edges, P_Garbage, P_NoDate, P_BadDate, P_BadDay, P_Empty, P_Late}

\* payloads written by save_schedule_to_cache in the concurrent specification
PutPayloads == {P_Week, P_NoDate}

Groups == {1, 2}

\* 2024-03-14 is a Thursday, 2024-03-15 the Friday of that week,
\* 2024-03-18 the Monday of the next
D_Thu == Date(2024, 3, 14)
D_Fri == Date(2024, 3, 15)
D_Mon == Date(2024, 3, 18)

CacheDates == {D_Thu, D_Fri, D_Mon}

TargetDates == {D_Thu, D_Fri, Date(2024, 2, 29), Date(2024, 1, 1)}

-----------------------------------------------------------------------------
(* get_all_group_schedules_today: the loop over the fetched rows *)

\* lesson.get("scheduleDate", "")[:10]
raw_date(lesson) ==
    Slice10(IF "scheduleDate" \in DOMAIN lesson THEN lesson.scheduleDate ELSE <<>>)

\* datetime.fromisoformat(raw_date).date() + timedelta(days=1)
lesson_date(lesson) ==
    LET parsed == fromisoformat(raw_date(lesson))
    IN  IF parsed.ok THEN AddOneDay(parsed.date) ELSE [ok |-> FALSE]

\* the body of the try block from lesson i on: what the row appended to its
\* bucket before the block ended, and whether it ended by an exception
RECURSIVE ScanLessons(_, _, _, _)
ScanLessons(lessons, i, target_date, acc) ==
    IF i > Len(lessons) THEN [appended |-> acc, raised |-> FALSE]
    ELSE LET ld == lesson_date(lessons[i])
         IN  IF ~ld.ok THEN [appended |-> acc, raised |-> TRUE]
             ELSE ScanLessons(lessons, i + 1, target_date,
                              IF ld.date = target_date
                              THEN Append(acc, lessons[i]) ELSE acc)

\* one iteration of the for loop: json.loads, then the lessons
ProcessRow(row, target_date) ==
    IF row.data.parses THEN ScanLessons(row.data.lessons, 1, target_date, <<>>)
    ELSE [appended |-> <<>>, raised |-> TRUE]

\* grouped[group_id].append(lesson) for each lesson of appended, on a defaultdict(list)
Extend(grouped, group_id, appended) ==
    IF appended = <<>> THEN grouped
    ELSE [g \in DOMAIN grouped \cup {group_id} |->
            IF g = group_id
            THEN (IF g \in DOMAIN grouped THEN grouped[g] ELSE <<>>) \o appended
            ELSE grouped[g]]

EmptyDict == [g \in {} |-> <<>>]

ScanRowsAbortOnError(fetched, target_date) ==
    LET F[i \in 0..Len(fetched)] ==
            IF i = 0 THEN [grouped |-> EmptyDict, contrib |-> <<>>, raised |-> FALSE]
            ELSE LET r == ProcessRow(fetched[i], target_date)
                     a == IF F[i - 1].raised THEN <<>> ELSE r.appended
                 IN  [grouped |-> Extend(F[i - 1].grouped, fetched[i].group_id, a),
                      contrib |-> Append(F[i - 1].contrib, a),
                      raised |-> F[i - 1].raised \/ r.raised]
    IN  F[Len(fetched)]

\* lines 118-137, the for loop: the dict built, what each row appended to it,
\* and whether an exception left the loop (`except Exception` lets none)
ScanRows(fetched, target_date) ==
    LET F[i \in 0..Len(fetched)] ==
            IF i = 0 THEN [grouped |-> EmptyDict, contrib |-> <<>>, raised |-> FALSE]
            ELSE LET r == ProcessRow(fetched[i], target_date)
                 IN  [grouped |-> Extend(F[i - 1].grouped, fetched[i].group_id,
                                         r.appended),
                      contrib |-> Append(F[i - 1].contrib, r.appended),
                      raised |-> FALSE]
    IN  F[Len(fetched)]

-----------------------------------------------------------------------------
(* Tables *)

\* a ScheduleCache instance
Row(id, group_id, week_start, data, updated_at) ==
    [type |-> "ScheduleCache", id |-> id, group_id |-> group_id,
     week_start |-> week_start, data |-> data, updated_at |-> updated_at]

\* the row the INSERT of session.add(ScheduleCache(group_id=, week_start=, data=))
\* stores: id and updated_at are column defaults of app.db.models
NewRow(table, group_id, week_start, data, now) ==
    Row(Len(table) + 1, group_id, week_start, data, now)

UserRow(id, telegram_id, group_id) ==
    [id |-> id, telegram_id |-> telegram_id, group_id |-> group_id]

SettingsRow(user_id, language, today, daily) ==
    [user_id |-> user_id, language |-> language,
     today_schedule_digest |-> today, daily_digest |-> daily]

\* the User and UserSettings tables this layer may find: nobody registered,
\* or one user with both digest flags set and one with neither
Directories ==
    { [users |-> {}, settings |-> {}],
      [users |-> {UserRow(1, 101, 1), UserRow(2, 102, 2)},
       settings |-> {SettingsRow(1, "ru", TRUE, TRUE),
                     SettingsRow(2, "en", FALSE, FALSE)}] }

TelegramIds == {101, 999}

IntValue(n) == [type |-> "int", value |-> n]
ListValue(items) == [type |-> "list", items |-> items]
DictValue(items) == [type |-> "dict", items |-> items]

Key(group_id, week_start) == <<group_id, week_start>>

Keys == {Key(g, get_week_start(d)) : g \in Groups, d \in CacheDates}

RowKey(r) == Key(r.group_id, r.week_start)

\* the key a get or put call addresses
KeyOf(c) == Key(c.group_id, get_week_start(c.target_date))

RowsOf(table, k) == {i \in 1..Len(table) : RowKey(table[i]) = k}

Orders(n) == {f \in [1..n -> 1..n] : \A i, j \in 1..n : f[i] = f[j] => i = j}

-----------------------------------------------------------------------------
(* Queries: each reads the committed table (READ COMMITTED) *)

FirstIgnoringWeek(table, group_id, week_start) ==
    LET m == {i \in 1..Len(table) : table[i].group_id = group_id}
    IN  IF m = {} THEN {NoneValue} ELSE {table[i] : i \in m}

\* select(ScheduleCache).where(group_id ==).where(week_start ==) ... scalars().first():
\* None, or one of the matching rows (the query states no order)
SelectFirst(table, group_id, week_start) ==
    LET m == RowsOf(table, Key(group_id, week_start))
    IN  IF m = {} THEN {NoneValue} ELSE {table[i] : i \in m}

\* select(ScheduleCache) ... scalars().all(): every row, in an order the
\* query does not state
SelectAll(table) ==
    {[i \in 1..Len(table) |-> table[f[i]]] : f \in Orders(Len(table))}

\* select(User.group_id).where(User.telegram_id ==) ... scalar()
SelectGroupId(table, telegram_id) ==
    LET m == {u \in table : u.telegram_id = telegram_id}
    IN  IF m = {} THEN {NoneValue} ELSE {IntValue(u.group_id) : u \in m}

\* select(telegram_id, group_id, language).join(UserSettings)
\*   .where(today_schedule_digest == True) ... all()
SelectTodayDigest(utable, stable) ==
    {<<u.telegram_id, u.group_id, s.language>> :
        <<u, s>> \in {x \in utable \X stable :
                        x[1].id = x[2].user_id /\ x[2].today_schedule_digest}}

\* select(User.telegram_id).join(UserSettings).where(User.group_id ==)
\*   .where(daily_digest == True) ... scalars().all()
SelectStudents(utable, stable, group_id) ==
    {x[1].telegram_id :
        x \in {x \in utable \X stable :
                 /\ x[1].id = x[2].user_id
                 /\ x[1].group_id = group_id
                 /\ x[2].daily_digest}}

UpdateEveryRow(table, id, data, now) ==
    [i \in 1..Len(table) |-> [table[i] EXCEPT !.data = data, !.updated_at = now]]

\* update(ScheduleCache).where(id ==).values(data=, updated_at=)
UpdateRow(table, id, data, now) ==
    [i \in 1..Len(table) |->
        IF table[i].id = id
        THEN [table[i] EXCEPT !.data = data, !.updated_at = now]
        ELSE table[i]]

-----------------------------------------------------------------------------
(* Coroutines *)

Idle == [kind |-> "none"]
NoLocals == [exc |-> FALSE]
NoResult == [outcome |-> "none"]
Returned(v) == [outcome |-> "returned", value |-> v]
Raised == [outcome |-> "raised"]

Kind(p) == call[p].kind
Running(p) == pc[p] \notin {"idle", "done"}

\* a row is locked from the UPDATE of a transaction until that transaction ends
Locked(id) ==
    \E q \in Procs : /\ Kind(q) = "save_schedule_to_cache"
                     /\ pc[q] = "commit"
                     /\ local[q].existing # NoneValue
                     /\ local[q].existing.id = id

\* the call of an accessor up to its first await: the arguments are bound and
\* `async with async_session_maker() as session` opens the session
Enter(p, c) ==
    /\ pc[p] \in {"idle", "done"}
    /\ call' = [call EXCEPT ![p] = c]
    /\ local' = [local EXCEPT ![p] = NoLocals]
    /\ result' = [result EXCEPT ![p] = NoResult]
    /\ sessions' = sessions \cup {p}
    /\ opened' = [opened EXCEPT ![p] = 1]
    /\ pc' = [pc EXCEPT ![p] = "execute"]

Tables == <<rows, users, settings>>

get_cached_schedule_call(p) ==
    /\ \E g \in Groups, d \in CacheDates :
          Enter(p, [kind |-> "get_cached_schedule", group_id |-> g, target_date |-> d])
    /\ UNCHANGED <<Tables, clock, puts, lastCommit>>

\* lines 18-23: the query and first()
get_cached_schedule_execute(p) ==
    /\ pc[p] = "execute" /\ Kind(p) = "get_cached_schedule"
    /\ \E cache \in SelectFirst(rows, call[p].group_id,
                                get_week_start(call[p].target_date)) :
          local' = [local EXCEPT ![p] = [exc |-> FALSE, cache |-> cache]]
    /\ pc' = [pc EXCEPT ![p] = "exit"]
    /\ UNCHANGED <<Tables, clock, call, result, sessions, opened, puts, lastCommit>>

save_schedule_to_cache_call(p) ==
    /\ puts < MaxPuts
    /\ \E g \in Groups, d \in CacheDates, data \in PutPayloads :
          Enter(p, [kind |-> "save_schedule_to_cache", group_id |-> g,
                    target_date |-> d, data |-> data])
    /\ puts' = puts + 1
    /\ UNCHANGED <<Tables, clock, lastCommit>>

\* lines 41-48 and 58-61: the query (matched counts the rows it found),
\* first(), and up to the next await: the UPDATE statement built with
\* utcnow(), or session.add of the new row
save_schedule_to_cache_select(p) ==
    /\ pc[p] = "execute" /\ Kind(p) = "save_schedule_to_cache"
    /\ \E existing \in SelectFirst(rows, call[p].group_id,
                                   get_week_start(call[p].target_date)) :
          /\ local' = [local EXCEPT ![p] =
                          [exc |-> FALSE, existing |-> existing, now |-> clock,
                           matched |-> Cardinality(RowsOf(rows, KeyOf(call[p])))]]
          /\ pc' = [pc EXCEPT ![p] = IF existing # NoneValue THEN "update" ELSE "commit"]
          /\ clock' = IF existing # NoneValue THEN clock + 1 ELSE clock
    /\ UNCHANGED <<Tables, call, result, sessions, opened, puts, lastCommit>>

\* lines 49-53: the UPDATE runs in the transaction; it waits for the row's lock
save_schedule_to_cache_update(p) ==
    /\ pc[p] = "update" /\ Kind(p) = "save_schedule_to_cache"
    /\ ~Locked(local[p].existing.id)
    /\ pc' = [pc EXCEPT ![p] = "commit"]
    /\ UNCHANGED <<Tables, clock, call, local, result, sessions, opened, puts, lastCommit>>

CommitAlwaysInserts(p, table) ==
    Append(table, NewRow(table, call[p].group_id,
                         get_week_start(call[p].target_date), call[p].data, clock))

CommitAsUpsert(p, table) ==
    LET week_start == get_week_start(call[p].target_date)
        m == RowsOf(table, Key(call[p].group_id, week_start))
    IN  IF m # {}
        THEN UpdateRow(table, table[CHOOSE i \in m : TRUE].id, call[p].data, clock)
        ELSE Append(table, NewRow(table, call[p].group_id, week_start,
                                  call[p].data, clock))

CommitIfUnchanged(p, table) ==
    IF local[p].existing # NoneValue
    THEN IF \E i \in 1..Len(table) : table[i] = local[p].existing
         THEN UpdateRow(table, local[p].existing.id, call[p].data, local[p].now)
         ELSE table
    ELSE Append(table, NewRow(table, call[p].group_id,
                              get_week_start(call[p].target_date),
                              call[p].data, clock))

\* the table after the transaction of p commits: the pending UPDATE of
\* existing.id, or the INSERT flushed for the added row
Committed(p, table) ==
    IF local[p].existing # NoneValue
    THEN UpdateRow(table, local[p].existing.id, call[p].data, local[p].now)
    ELSE Append(table, NewRow(table, call[p].group_id,
                              get_week_start(call[p].target_date),
                              call[p].data, clock))

\* line 66: await session.commit()
save_schedule_to_cache_commit(p) ==
    /\ pc[p] = "commit" /\ Kind(p) = "save_schedule_to_cache"
    /\ rows' = Committed(p, rows)
    /\ clock' = IF local[p].existing = NoneValue THEN clock + 1 ELSE clock
    /\ lastCommit' = [lastCommit EXCEPT
                        ![Key(call[p].group_id, get_week_start(call[p].target_date))] =
                            call[p].data]
    /\ pc' = [pc EXCEPT ![p] = "exit"]
    /\ UNCHANGED <<users, settings, call, local, result, sessions, opened, puts>>

get_user_group_id_call(p) ==
    /\ \E t \in TelegramIds : Enter(p, [kind |-> "get_user_group_id", telegram_id |-> t])
    /\ UNCHANGED <<Tables, clock, puts, lastCommit>>

\* lines 71-74
get_user_group_id_execute(p) ==
    /\ pc[p] = "execute" /\ Kind(p) = "get_user_group_id"
    /\ \E group_id \in SelectGroupId(users, call[p].telegram_id) :
          local' = [local EXCEPT ![p] = [exc |-> FALSE, group_id |-> group_id]]
    /\ pc' = [pc EXCEPT ![p] = "exit"]
    /\ UNCHANGED <<Tables, clock, call, result, sessions, opened, puts, lastCommit>>

get_users_with_today_digest_call(p) ==
    /\ Enter(p, [kind |-> "get_users_with_today_digest"])
    /\ UNCHANGED <<Tables, clock, puts, lastCommit>>

\* lines 86-91
get_users_with_today_digest_execute(p) ==
    /\ pc[p] = "execute" /\ Kind(p) = "get_users_with_today_digest"
    /\ local' = [local EXCEPT ![p] = [exc |-> FALSE,
                                      users |-> SelectTodayDigest(users, settings)]]
    /\ pc' = [pc EXCEPT ![p] = "exit"]
    /\ UNCHANGED <<Tables, clock, call, result, sessions, opened, puts, lastCommit>>

get_students_by_group_with_digest_call(p) ==
    /\ \E g \in Groups :
          Enter(p, [kind |-> "get_students_by_group_with_digest", group_id |-> g])
    /\ UNCHANGED <<Tables, clock, puts, lastCommit>>

\* lines 100-106
get_students_by_group_with_digest_execute(p) ==
    /\ pc[p] = "execute" /\ Kind(p) = "get_students_by_group_with_digest"
    /\ local' = [local EXCEPT ![p] =
                    [exc |-> FALSE,
                     students |-> SelectStudents(users, settings, call[p].group_id)]]
    /\ pc' = [pc EXCEPT ![p] = "exit"]
    /\ UNCHANGED <<Tables, clock, call, result, sessions, opened, puts, lastCommit>>

get_all_group_schedules_today_call(p) ==
    /\ \E t \in TargetDates :
          Enter(p, [kind |-> "get_all_group_schedules_today", target_date |-> t])
    /\ UNCHANGED <<Tables, clock, puts, lastCommit>>

\* lines 115-116
get_all_group_schedules_today_execute(p) ==
    /\ pc[p] = "execute" /\ Kind(p) = "get_all_group_schedules_today"
    /\ \E fetched \in SelectAll(rows) :
          local' = [local EXCEPT ![p] = [exc |-> FALSE, rows |-> fetched]]
    /\ pc' = [pc EXCEPT ![p] = "exit"]
    /\ UNCHANGED <<Tables, clock, call, result, sessions, opened, puts, lastCommit>>

\* a statement or the commit fails (connectivity): the awaited call raises and
\* the transaction, with its pending write and its lock, is gone
db_error(p) ==
    /\ pc[p] \in {"execute", "update", "commit"}
    /\ local' = [local EXCEPT ![p].exc = TRUE]
    /\ pc' = [pc EXCEPT ![p] = "exit"]
    /\ UNCHANGED <<Tables, clock, call, result, sessions, opened, puts, lastCommit>>

ReleaseUnlessRaising(p, held) == IF local[p].exc THEN held ELSE held \ {p}

\* AsyncSession.__aexit__: the block is left, by return or by exception
Release(p, held) == held \ {p}

\* what the accessor returns when no exception is on its way out
ReturnValue(p) ==
    CASE Kind(p) = "get_cached_schedule" -> local[p].cache
      [] Kind(p) = "save_schedule_to_cache" -> NoneValue
      [] Kind(p) = "get_user_group_id" -> local[p].group_id
      [] Kind(p) = "get_users_with_today_digest" -> ListValue(local[p].users)
      [] Kind(p) = "get_students_by_group_with_digest" -> ListValue(local[p].students)
      [] Kind(p) = "get_all_group_schedules_today" ->
            DictValue(ScanRows(local[p].rows, call[p].target_date).grouped)

\* the end of the `async with` block and of the call: the session is closed,
\* then the accessor returns (the aggregator after its loop) or the exception
\* propagates; the arguments and locals die with the call
session_exit(p) ==
    /\ pc[p] = "exit"
    /\ sessions' = Release(p, sessions)
    /\ result' = [result EXCEPT ![p] =
                    IF local[p].exc THEN Raised
                    ELSE IF /\ Kind(p) = "get_all_group_schedules_today"
                            /\ ScanRows(local[p].rows, call[p].target_date).raised
                    THEN Raised
                    ELSE Returned(ReturnValue(p))]
    /\ local' = [local EXCEPT ![p] = NoLocals]
    /\ call' = [call EXCEPT ![p] = Idle]
    /\ pc' = [pc EXCEPT ![p] = "done"]
    /\ UNCHANGED <<Tables, clock, opened, puts, lastCommit>>

-----------------------------------------------------------------------------
(* Specifications *)

Quiescent ==
    /\ pc = [p \in Procs |-> "idle"]
    /\ call = [p \in Procs |-> Idle]
    /\ local = [p \in Procs |-> NoLocals]
    /\ result = [p \in Procs |-> NoResult]
    /\ sessions = {}
    /\ opened = [p \in Procs |-> 0]
    /\ puts = 0

\* a cache left by an earlier run: one row, written at time 0
StoredCache == <<Row(1, 1, get_week_start(D_Thu), P_Edges, 0)>>

\* a cache in which an earlier race left two rows for one key
DuplicatedCache ==
    <<Row(1, 2, get_week_start(D_Mon), P_Edges, 0),
      Row(2, 2, get_week_start(D_Mon), P_Empty, 1)>>

\* the table as found, each key last written by the put of its newest row
Stored(table) ==
    /\ rows = table
    /\ clock = Len(table)
    /\ lastCommit = [k \in Keys |->
                        IF RowsOf(table, k) = {} THEN NoneValue
                        ELSE LET m == RowsOf(table, k)
                             IN  table[CHOOSE i \in m : \A j \in m : j <= i].data]

\* the cache empty or as an earlier run left it, and any user directory
Init ==
    /\ \E table \in {<<>>, StoredCache, DuplicatedCache} : Stored(table)
    /\ \E dir \in Directories : users = dir.users /\ settings = dir.settings
    /\ Quiescent

CallStep(p) ==
    \/ get_cached_schedule_call(p)
    \/ save_schedule_to_cache_call(p)
    \/ get_user_group_id_call(p)
    \/ get_users_with_today_digest_call(p)
    \/ get_students_by_group_with_digest_call(p)
    \/ get_all_group_schedules_today_call(p)

RunStep(p) ==
    \/ get_cached_schedule_execute(p)
    \/ save_schedule_to_cache_select(p)
    \/ save_schedule_to_cache_update(p)
    \/ save_schedule_to_cache_commit(p)
    \/ get_user_group_id_execute(p)
    \/ get_users_with_today_digest_execute(p)
    \/ get_students_by_group_with_digest_execute(p)
    \/ get_all_group_schedules_today_execute(p)
    \/ db_error(p)
    \/ session_exit(p)

\* two calls race: each coroutine calls one accessor, and the two interleave
\* at every await
Next == \E p \in Procs : (pc[p] = "idle" /\ CallStep(p)) \/ RunStep(p)

Spec == Init /\ [][Next]_vars

\* an empty cache and any user directory
InitEmpty ==
    /\ Stored(<<>>)
    /\ \E dir \in Directories : users = dir.users /\ settings = dir.settings
    /\ Quiescent

\* calls run one at a time: one coroutine calls accessor after accessor
NextSeq == CallStep(1) \/ RunStep(1)

SpecSeq == InitEmpty /\ [][NextSeq]_vars

\* the cache tables the aggregator is applied to: up to MaxRows rows, each of
\* any group and payload, one row per week
AggTables ==
    UNION { { [i \in 1..n |->
                Row(i, f[i][1], get_week_start(D_Thu) + 7 * (i - 1), f[i][2], 0)] :
              f \in [1..n -> Groups \X Payloads] } : n \in 0..MaxRows }

InitAgg ==
    /\ \E table \in AggTables : Stored(table)
    /\ users = {} /\ settings = {}
    /\ Quiescent

NextAgg ==
    \/ get_all_group_schedules_today_call(1)
    \/ get_all_group_schedules_today_execute(1)
    \/ db_error(1)
    \/ session_exit(1)

SpecAgg == InitAgg /\ [][NextAgg]_vars

-----------------------------------------------------------------------------
(* Properties *)

\* coroutine p, running accessor kind, returns in this step
Returns(p, kind) ==
    /\ pc[p] = "exit" /\ pc'[p] = "done"
    /\ Kind(p) = kind
    /\ ~local[p].exc

\* coroutine p has committed a save_schedule_to_cache and not yet returned
Saved(p) ==
    /\ Kind(p) = "save_schedule_to_cache"
    /\ pc[p] = "exit"
    /\ ~local[p].exc

\* C1: when a save_schedule_to_cache(G, D, P) has completed and no other put
\* for the key followed, get_cached_schedule(G, D) returns the payload P
\* itself, the value last written for (G, week_start(D))
C1_GetReturnsWrittenPayload ==
    [][\A p \in Procs :
        (Returns(p, "get_cached_schedule") /\ lastCommit[KeyOf(call[p])] # NoneValue)
        => result'[p] = Returned(lastCommit[KeyOf(call[p])])]_vars

\* C2: with calls run one at a time from an empty cache, a key never put has
\* no row, and a key that was put has exactly one row, holding the payload of
\* the last put for it (a second put replaces, it does not duplicate)
C2_OneRowPerKey ==
    \A k \in Keys :
        IF lastCommit[k] = NoneValue THEN RowsOf(rows, k) = {}
        ELSE /\ Cardinality(RowsOf(rows, k)) = 1
             /\ \A i \in RowsOf(rows, k) : rows[i].data = lastCommit[k]

\* a second put for a key has replaced the payload of the key's only row
C2_Witness ==
    /\ puts = 2
    /\ result[1] = Returned(NoneValue)
    /\ Len(rows) = 1
    /\ rows[1].updated_at = 1
    /\ rows[1].data = lastCommit[RowKey(rows[1])]

\* C3: when two save_schedule_to_cache calls for one key have both read
\* "no existing row" and both committed, the table holds two rows for the key
C3_RacingInsertsDuplicate ==
    \A p, q \in Procs :
        (/\ p # q
         /\ Saved(p) /\ Saved(q)
         /\ KeyOf(call[p]) = KeyOf(call[q])
         /\ local[p].existing = NoneValue
         /\ local[q].existing = NoneValue)
        => Cardinality(RowsOf(rows, KeyOf(call[p]))) = 2

\* both racing calls have inserted: two rows for the key
C3_Witness ==
    /\ Saved(1) /\ Saved(2)
    /\ KeyOf(call[1]) = KeyOf(call[2])
    /\ local[1].existing = NoneValue
    /\ local[2].existing = NoneValue
    /\ Cardinality(RowsOf(rows, KeyOf(call[1]))) = 2

\* C4: when two save_schedule_to_cache calls for one key have both found the
\* key's only row and both committed, the key still has exactly one row and it
\* holds the payload of the call that committed last
C4_LastWriterWins ==
    \A p, q \in Procs :
        (/\ p # q
         /\ Saved(p) /\ Saved(q)
         /\ KeyOf(call[p]) = KeyOf(call[q])
         /\ local[p].matched = 1
         /\ local[q].matched = 1)
        => /\ Cardinality(RowsOf(rows, KeyOf(call[p]))) = 1
           /\ lastCommit[KeyOf(call[p])] \in {call[p].data, call[q].data}
           /\ \A i \in RowsOf(rows, KeyOf(call[p])) :
                 rows[i].data = lastCommit[KeyOf(call[p])]

\* two calls with different payloads have both updated the stored row
C4_Witness ==
    /\ Saved(1) /\ Saved(2)
    /\ KeyOf(call[1]) = KeyOf(call[2])
    /\ local[1].matched = 1
    /\ local[2].matched = 1
    /\ call[1].data # call[2].data
    /\ Len(rows) = 1
    /\ rows[1].data = call[1].data
    /\ lastCommit[RowKey(rows[1])] = call[1].data

\* C9: the open sessions are exactly those of the calls in progress, one per
\* call: a call that has returned or raised has opened one session and holds none
C9_SessionsReleased ==
    /\ sessions = {p \in Procs : Running(p)}
    /\ \A p \in Procs : (Running(p) \/ pc[p] = "done") => opened[p] = 1
    /\ \A p \in Procs : pc[p] = "idle" => opened[p] = 0

\* one call has raised, the other has returned, and no session is open
C9_Witness ==
    /\ result[1] = Raised
    /\ result[2].outcome = "returned"
    /\ sessions = {}

\* the step is the commit of the save_schedule_to_cache of coroutine p
Commits(p) ==
    /\ Kind(p) = "save_schedule_to_cache"
    /\ pc[p] = "commit" /\ pc'[p] = "exit"
    /\ ~local'[p].exc

\* rows' is rows with one row of key k added, holding data
InsertsOne(k, data) ==
    /\ Len(rows') = Len(rows) + 1
    /\ \A i \in 1..Len(rows) : rows'[i] = rows[i]
    /\ RowKey(rows'[Len(rows')]) = k
    /\ rows'[Len(rows')].data = data

\* rows' is rows with the payload and timestamp of one row of key k replaced
ReplacesOne(k, data) ==
    /\ Len(rows') = Len(rows)
    /\ \E i \in RowsOf(rows, k) :
          /\ rows'[i] = [rows[i] EXCEPT !.data = data,
                                        !.updated_at = rows'[i].updated_at]
          /\ \A j \in 1..Len(rows) : j # i => rows'[j] = rows[j]

\* C10: no step deletes a row or touches User and UserSettings; the commit of
\* save_schedule_to_cache(G, D, P) inserts one row of key (G, week_start(D))
\* or replaces payload and timestamp of one row of that key, all other rows
\* unchanged; every other step of any accessor leaves the cache unchanged
C10_Frame ==
    [][/\ users' = users /\ settings' = settings
       /\ Len(rows') >= Len(rows)
       /\ \A p \in Procs :
            Commits(p) => \/ InsertsOne(KeyOf(call[p]), call[p].data)
                          \/ ReplacesOne(KeyOf(call[p]), call[p].data)
       /\ (~\E p \in Procs : Commits(p)) => rows' = rows]_vars

\* one put has replaced the stored row and another has added a row beside it
C10_Witness ==
    /\ Len(rows) = 2
    /\ rows[1].id = StoredCache[1].id
    /\ rows[1].data # StoredCache[1].data
    /\ RowKey(rows[2]) # RowKey(rows[1])

\* the calendar date a lesson's scheduleDate starts with
DateOf(lesson) == fromisoformat(Slice10(lesson.scheduleDate)).date

\* every lesson of the row has a scheduleDate starting with a calendar date
\* that has a next day, and the row's JSON parses
WellFormed(row) ==
    /\ row.data.parses
    /\ \A i \in 1..Len(row.data.lessons) :
          LET lesson == row.data.lessons[i]
          IN  /\ "scheduleDate" \in DOMAIN lesson
              /\ fromisoformat(Slice10(lesson.scheduleDate)).ok
              /\ DateOf(lesson) # Date(9999, 12, 31)

\* the lessons of a well-formed row dated the day before target_date, in order
Matching(row, target_date) ==
    LET OnEve(lesson) == Ordinal(DateOf(lesson)) + 1 = Ordinal(target_date)
    IN  SelectSeq(row.data.lessons, OnEve)

RECURSIVE Flatten(_)
Flatten(ss) == IF ss = <<>> THEN <<>> ELSE Head(ss) \o Flatten(Tail(ss))

\* what the rows of group g add to its bucket when row i adds parts[i]
Bucket(fetched, g, parts) ==
    Flatten([i \in 1..Len(fetched) |->
                IF fetched[i].group_id = g THEN parts[i] ELSE <<>>])

\* the list a dict holds for a key, empty when the key is absent
Lookup(d, g) == IF g \in DOMAIN d.items THEN d.items[g] ELSE <<>>

\* C5: over a cache in which every row parses without error, the aggregator
\* returns for each group the lessons of that group's rows, in row order then
\* lesson order, whose date plus one day is the target date, and no others
C5_AggregatesMatchingLessons ==
    [][\A p \in Procs :
        (/\ Returns(p, "get_all_group_schedules_today")
         /\ \A i \in 1..Len(local[p].rows) : WellFormed(local[p].rows[i]))
        => /\ result'[p].outcome = "returned"
           /\ DOMAIN result'[p].value.items \subseteq Groups
           /\ \A g \in Groups :
                LET parts == [i \in 1..Len(local[p].rows) |->
                                Matching(local[p].rows[i], call[p].target_date)]
                IN  Lookup(result'[p].value, g) = Bucket(local[p].rows, g, parts)]_vars

Math == Lesson("math", SD_0314)
Phys == Lesson("phys", SD_0314)

\* two well-formed rows of group 1 were aggregated for 2024-03-15: the bucket
\* holds the lessons dated 2024-03-14, row after row, in lesson order
C5_Witness ==
    /\ Len(rows) = 2
    /\ rows[1].data = P_Week /\ rows[2].data = P_Late
    /\ result[1] = Returned(DictValue([g \in {1} |->
                        <<Math, Phys, Lesson("lit", SD_0314)>>]))

\* C6: the aggregator returns whatever the payloads are, and every well-formed
\* row adds to its group's bucket exactly its matching lessons, in its place
\* in row order, whatever the malformed rows before or after it add
C6_MalformedRowsDoNotAbort ==
    [][\A p \in Procs :
        Returns(p, "get_all_group_schedules_today")
        => /\ result'[p].outcome = "returned"
           /\ \A g \in Groups :
                LET parts == [i \in 1..Len(local[p].rows) |->
                                IF WellFormed(local[p].rows[i])
                                THEN Matching(local[p].rows[i], call[p].target_date)
                                ELSE ProcessRow(local[p].rows[i],
                                                call[p].target_date).appended]
                IN  Lookup(result'[p].value, g) = Bucket(local[p].rows, g, parts)]_vars

\* an unparsable row came first and a well-formed row of the same group
\* still gave its two matching lessons
C6_Witness ==
    /\ Len(rows) = 2
    /\ rows[1].data = P_Garbage /\ rows[1].group_id = 1
    /\ rows[2].data = P_Week /\ rows[2].group_id = 1
    /\ result[1] = Returned(DictValue([g \in {1} |-> <<Math, Phys>>]))

\* C7: a row whose processing raises is skipped whole: only well-formed rows
\* add lessons to the mapping returned
C7_MalformedRowSkippedWhole ==
    [][\A p \in Procs :
        Returns(p, "get_all_group_schedules_today")
        => \A g \in Groups :
              LET parts == [i \in 1..Len(local[p].rows) |->
                              IF WellFormed(local[p].rows[i])
                              THEN Matching(local[p].rows[i], call[p].target_date)
                              ELSE <<>>]
              IN  Lookup(result'[p].value, g) = Bucket(local[p].rows, g, parts)]_vars

\* C8: absence is returned, not raised: get_cached_schedule returns None when
\* the key has no row, get_user_group_id returns None when no User has the
\* telegram id, the digest enumerations return an empty list when no user has
\* the flag (or none with it is in the group); a call raises only on a
\* database error
C8_AbsenceIsReturned ==
    [][\A p \in Procs :
        (pc[p] = "exit" /\ pc'[p] = "done")
        => /\ result'[p] = Raised => local[p].exc
           /\ (/\ Returns(p, "get_cached_schedule")
               /\ RowsOf(rows, KeyOf(call[p])) = {})
              => result'[p] = Returned(NoneValue)
           /\ (/\ Returns(p, "get_user_group_id")
               /\ \A u \in users : u.telegram_id # call[p].telegram_id)
              => result'[p] = Returned(NoneValue)
           /\ (/\ Returns(p, "get_users_with_today_digest")
               /\ \A s \in settings : ~s.today_schedule_digest)
              => result'[p] = Returned(ListValue({}))
           /\ (/\ Returns(p, "get_students_by_group_with_digest")
               /\ \A u \in users, s \in settings :
                     ~(u.id = s.user_id /\ u.group_id = call[p].group_id
                       /\ s.daily_digest))
              => result'[p] = Returned(ListValue({}))]_vars

\* a get_cached_schedule for a week not cached, beside a cached one, is about
\* to return None
C8_Witness ==
    /\ pc[1] = "exit"
    /\ Kind(1) = "get_cached_schedule"
    /\ ~local[1].exc
    /\ \E i \in 1..Len(rows) : rows[i].group_id = call[1].group_id
    /\ RowsOf(rows, KeyOf(call[1])) = {}
    /\ ReturnValue(1) = NoneValue

====
